---- MODULE Spec2Model ----
(***************************************************************************)
(* Model of the class Departementale of traffic_jam_simulation.py: a       *)
(* single-lane circular road of L cells carrying nb_cars cars, each a      *)
(* (position, velocity) pair, advanced by __simulation once per tick while *)
(* t < tmax, together with the occupancy (__road) and density              *)
(* (__traffic_density) vectors derived from the car positions.             *)
(***************************************************************************)
EXTENDS Integers, Sequences, FiniteSets, TLC

(* ---- bounds of the model ---------------------------------------------- *)
MaxL == 8
MaxCars == 2
MaxVmax == 4
MaxT == 11
MaxTmaxClock == 2
MaxScenarioL == 10
MaxCrowdL == 4
MaxEndlessL == 6
MaxCalls == 40

VARIABLES
    L,           \* self.L
    nb_cars,     \* self.nb_cars
    vmax,        \* self.vmax
    tmax,        \* self.tmax, an integer
    dt,          \* self.dt, a double
    proba_slow,  \* self.proba_slow, in percent
    cars,        \* the array cars: index 0..nb_cars-1 -> (position, velocity)
    t,           \* self.t, a double
    pc,          \* "new" (constructed), "running" (inside the while loop), "finished"
    calls,       \* number of calls of __simulation in the current run, counted up to MaxCalls
    last         \* record of the last call of __simulation (start-of-tick cars, draws, ...)

vars == <<L, nb_cars, vmax, tmax, dt, proba_slow, cars, t, pc, calls, last>>
config == <<L, nb_cars, vmax, tmax, dt, proba_slow>>

Min(a, b) == IF a < b THEN a ELSE b
Max(a, b) == IF a > b THEN a ELSE b

(* ---- the clock: Python floats ------------------------------------------ *)
\* A double x >= 0 that is a multiple of 2^-56 and below 32 is kept exactly as
\* [hi, lo] with x = (hi * 2^30 + lo) * 2^-56 and 0 <= lo < 2^30. Every double
\* in [2^-4, 32) has this form, and so has every sum of two of them below 32.
Limb == 2^30

\* 1.0 in units of hi, and the first hi that needs more than 53 bits
HiOne == 2^26
HiExact == 2^23

\* the double of a small integer
DoubleOf(n) == [hi |-> n * HiOne, lo |-> 0]

\* the doubles 0.1, 0.5 and 1.0
Tenth == [hi |-> 6710886, lo |-> 429496730]
Half == [hi |-> HiOne \div 2, lo |-> 0]
One == DoubleOf(1)

\* the weight, in units of lo, of the last of the 53 significant bits of a
\* value whose high limb is hi
RECURSIVE Ulp(_)
Ulp(hi) == IF hi < HiExact THEN 1 ELSE 2 * Ulp(hi \div 2)

\* x + y in IEEE-754 binary64: the exact sum rounded to 53 significant bits,
\* ties to even
DoubleAdd(x, y) ==
    LET sum_lo == x.lo + y.lo
        hi == x.hi + y.hi + (sum_lo \div Limb)
        lo == sum_lo % Limb
        q == Ulp(hi)
        r == lo % q
        up == 2 * r > q \/ (2 * r = q /\ (lo \div q) % 2 = 1)
        rounded == IF up THEN lo - r + q ELSE lo - r
    IN  [hi |-> hi + (rounded \div Limb), lo |-> rounded % Limb]

\* x < n for a double x and an integer n
DoubleLess(x, n) == x.hi < n * HiOne

(* ---- np.random ---------------------------------------------------------- *)
\* the velocities np.random.choice([1, 2, 3], nb_cars) can return
InitialVelocities == {1, 2, 3}

\* the values np.random.binomial(1, 1 - proba_slow) can return
Binomial(ps) == {p \in {0, 1} : (p = 1 => ps < 100) /\ (p = 0 => ps > 0)}

(* ---- __create_cars ------------------------------------------------------ *)
\* InitialPosition with the cars bumper to bumper
InitialPositionDense(i) == i + 1

\* car i is placed at the i-th element of range(1, nb_cars*2, 2)
InitialPosition(i) == 2 * i + 1

CreateCars(n, vs) ==
    [i \in 0..(n - 1) |-> [position |-> InitialPosition(i), velocity |-> vs[i]]]

(* ---- __simulation ------------------------------------------------------- *)
\* FreeFlow without the reduction modulo L
FreeFlowNoWrap(position, velocity, Lr) == position + velocity

\* free-flow candidate position
FreeFlow(position, velocity, Lr) == (position + velocity) % Lr

\* NoPassing with a window of 2 cells instead of 3
NoPassingNarrow(ix, n, next_position, next_car_position) ==
    /\ ix # n - 1
    /\ next_position >= next_car_position
    /\ next_position - next_car_position < 2

\* the test that prevents cars from overtaking
NoPassing(ix, n, next_position, next_car_position) ==
    /\ ix # n - 1
    /\ next_position >= next_car_position
    /\ next_position - next_car_position < 3

\* Clamped leaving one free cell behind the next car
ClampedTwoBehind(next_car_position) == next_car_position - 2

\* the position a blocked car is given
Clamped(next_car_position) == next_car_position - 1

\* NewVelocity without the cap vmax on the acceleration
NewVelocityUncapped(advance, p, vm) ==
    (advance + 1) * p + Max(advance - 1, 0) * (1 - p)

\* NewVelocity without the floor 0 on the deceleration
NewVelocityNoFloor(advance, p, vm) ==
    Min(advance + 1, vm) * p + (advance - 1) * (1 - p)

\* NewVelocity without the acceleration
NewVelocityNoGain(advance, p, vm) ==
    Min(advance, vm) * p + Max(advance - 1, 0) * (1 - p)

\* acceleration on p = 1, deceleration on p = 0
NewVelocity(advance, p, vm) ==
    Min(advance + 1, vm) * p + Max(advance - 1, 0) * (1 - p)

\* KeepVelocity that also keeps the velocity of a car that did not move
KeepVelocityOrEqual(next_position, old_position) == next_position <= old_position

\* the test that keeps the old velocity
KeepVelocity(next_position, old_position) == next_position < old_position

\* the final guard on the position
BeyondRoad(next_position, Lr) == next_position > Lr

\* one iteration of the loop over the cars; acc carries the array and the clock
SimulationBody(acc, ix, p, Lr, vm, step) ==
    LET cs == acc.cars
        n == Cardinality(DOMAIN cs)
        car == cs[ix]
        old_position == car.position
        next_car == IF ix = n - 1 THEN cs[0] ELSE cs[ix + 1]
        free == FreeFlow(car.position, car.velocity, Lr)
        blocked == NoPassing(ix, n, free, next_car.position)
        next_position == IF blocked THEN Clamped(next_car.position) ELSE free
        velocity == IF KeepVelocity(next_position, old_position)
                    THEN car.velocity
                    ELSE NewVelocity(next_position - old_position, p, vm)
        position == IF BeyondRoad(next_position, Lr) THEN 0 ELSE next_position
    IN  [cars |-> [cs EXCEPT ![ix] = [position |-> position, velocity |-> velocity]],
         t |-> DoubleAdd(acc.t, step),
         next_position |-> [acc.next_position EXCEPT ![ix] = next_position],
         successor |-> [acc.successor EXCEPT ![ix] = next_car.position],
         blocked |-> [acc.blocked EXCEPT ![ix] = blocked]]

\* for ix in range(len(cars)): the result a of each iteration is bound once
RECURSIVE SimulationLoop(_, _, _, _, _, _)
SimulationLoop(acc, ix, draws, Lr, vm, step) ==
    IF ix >= Cardinality(DOMAIN acc.cars)
    THEN acc
    ELSE CHOOSE r \in {SimulationLoop(a, ix + 1, draws, Lr, vm, step) :
                        a \in {SimulationBody(acc, ix, draws[ix], Lr, vm, step)}} : TRUE

\* the whole call __simulation(cars) with the given draws
Simulation(cs, clock, draws, Lr, vm, step) ==
    SimulationLoop([cars |-> cs, t |-> clock,
                    next_position |-> [i \in DOMAIN cs |-> 0],
                    successor |-> [i \in DOMAIN cs |-> 0],
                    blocked |-> [i \in DOMAIN cs |-> FALSE]],
                   0, draws, Lr, vm, step)

(* ---- __road and __traffic_density ---------------------------------------- *)
\* Python index of a length-len array: negative indices count from the end
PyIndex(i, len) == IF i < 0 THEN i + len ELSE i

\* TRUE when every car indexes the road inside its bounds
RoadDefined(cs, Lr) == \A i \in DOMAIN cs : cs[i].position \in (0 - Lr)..(Lr - 1)

Road(cs, Lr) ==
    [k \in 0..(Lr - 1) |->
        IF \E i \in DOMAIN cs : PyIndex(cs[i].position, Lr) = k THEN 1 ELSE 0]

\* KernelRange starting one index early
KernelRangeEarly(Lr) == 1..(Lr - 3)

\* densities are kept in quarters: 4 * traffic[0][k]
KernelRange(Lr) == 2..(Lr - 3)

\* r[0][i] for a row r of numpy
At(r, i) == r[PyIndex(i, Cardinality(DOMAIN r))]

\* Kernel with the five weights equal
KernelFlat(r, k) ==
    At(r, k - 2) + At(r, k - 1) + At(r, k) + At(r, k + 1) + At(r, k + 2)

Kernel(r, k) ==
    At(r, k - 2) + 2 * At(r, k - 1) + 4 * At(r, k) + 2 * At(r, k + 1)
    + At(r, k + 2)

TrafficDensity(cs, Lr) ==
    LET r == Road(cs, Lr)
    IN  [k \in 0..(Lr - 1) |-> IF k \in KernelRange(Lr) THEN Kernel(r, k) ELSE 0]

(* ---- the plot methods: create the cars, then loop while t < tmax -------- *)
NoCall(cs) ==
    [cars |-> cs,
     t |-> DoubleOf(0),
     draws |-> [i \in DOMAIN cs |-> 1],
     next_position |-> [i \in DOMAIN cs |-> cs[i].position],
     successor |-> [i \in DOMAIN cs |-> 0],
     blocked |-> [i \in DOMAIN cs |-> FALSE]]

Configurations ==
    {c \in [L : 1..MaxL, nb_cars : 1..MaxCars, vmax : 1..MaxVmax,
            proba_slow : {0, 25, 100}, dt : {One}, tmax : {MaxT}] :
        c.nb_cars <= c.L}

\* the object as constructed by __init__ with configuration c
Constructed(c) ==
    /\ L = c.L
    /\ nb_cars = c.nb_cars
    /\ vmax = c.vmax
    /\ proba_slow = c.proba_slow
    /\ dt = c.dt
    /\ tmax = c.tmax
    /\ cars = [i \in {} |-> 0]
    /\ t = DoubleOf(0)
    /\ pc = "new"
    /\ calls = 0
    /\ last = NoCall([i \in {} |-> 0])

Init == \E c \in Configurations : Constructed(c)

\* configurations whose initial placement 1, 3, 5, ... lies on the road
FittingConfigurations ==
    {c \in Configurations : InitialPosition(c.nb_cars - 1) < c.L}

InitFits == \E c \in FittingConfigurations : Constructed(c)

\* configurations that vary the clock: time steps 0.1, 0.5 and 1.0 and short
\* runs, on the shortest road the initial placement lies on
ClockConfigurations ==
    {c \in [L : 1..(2 * MaxCars), nb_cars : 1..MaxCars, vmax : {1},
            proba_slow : {25}, dt : {Tenth, Half, One},
            tmax : 1..MaxTmaxClock] :
        c.L = 2 * c.nb_cars}

InitClock == \E c \in ClockConfigurations : Constructed(c)

\* crowded roads: four cars on a road no longer than MaxCrowdL cells, and a
\* tmax that gives four ticks
CrowdCars == 4
CrowdTmax == 16

CrowdedConfigurations ==
    [L : 3..MaxCrowdL, nb_cars : {CrowdCars}, vmax : {1},
     proba_slow : {0, 25}, dt : {One}, tmax : {CrowdTmax}]

InitCrowded == \E c \in CrowdedConfigurations : Constructed(c)

\* runs in which every draw is go: with dt = 0 the clock stays at 0 and the
\* loop while self.t < self.tmax never ends; with dt = 1 the run ends
Zero == DoubleOf(0)

EndlessConfigurations ==
    {c \in [L : 4..MaxEndlessL, nb_cars : 1..MaxCars, vmax : 1..MaxVmax,
            proba_slow : {0}, dt : {Zero, One}, tmax : {2}] :
        c.nb_cars <= c.L}

InitEndless == \E c \in EndlessConfigurations : Constructed(c)

\* a road state of the data model, as a test sets it up before one tick:
\* positions strictly increasing in 0..L-1, velocities in 0..vmax
ScenarioConfigurations ==
    [L : 10..MaxScenarioL, nb_cars : {2}, vmax : 1..MaxVmax,
     proba_slow : {0, 25, 100}, dt : {One}, tmax : {2}]

RoadStates(c) ==
    {cs \in [0..(c.nb_cars - 1) ->
                [position : 0..(c.L - 1), velocity : 0..c.vmax]] :
        \A i \in 0..(c.nb_cars - 2) : cs[i].position < cs[i + 1].position}

InitScenario ==
    \E c \in ScenarioConfigurations :
        /\ L = c.L
        /\ nb_cars = c.nb_cars
        /\ vmax = c.vmax
        /\ proba_slow = c.proba_slow
        /\ dt = c.dt
        /\ tmax = c.tmax
        /\ cars \in RoadStates(c)
        /\ t = DoubleOf(0)
        /\ pc = "running"
        /\ calls = 0
        /\ last = NoCall(cars)

\* cars = self.__create_cars(); self.t = 0
Initialize ==
    /\ pc \in {"new", "finished"}
    /\ \E vs \in [0..(nb_cars - 1) -> InitialVelocities] :
          /\ cars' = CreateCars(nb_cars, vs)
          /\ last' = NoCall(CreateCars(nb_cars, vs))
    /\ t' = DoubleOf(0)
    /\ calls' = 0
    /\ pc' = "running"
    /\ UNCHANGED config

\* one iteration of while self.t < self.tmax: self.__simulation(cars)
Step ==
    /\ pc = "running"
    /\ DoubleLess(t, tmax)
    /\ \E draws \in [0..(nb_cars - 1) -> Binomial(proba_slow)] :
          \E r \in {Simulation(cars, t, draws, L, vmax, dt)} :
              /\ cars' = r.cars
              /\ t' = r.t
              /\ last' = [cars |-> cars, t |-> t, draws |-> draws,
                          next_position |-> r.next_position,
                          successor |-> r.successor,
                          blocked |-> r.blocked]
    /\ calls' = Min(calls + 1, MaxCalls)
    /\ UNCHANGED <<config, pc>>

\* the loop test fails: the run is over
Finish ==
    /\ pc = "running"
    /\ ~DoubleLess(t, tmax)
    /\ pc' = "finished"
    /\ UNCHANGED <<config, cars, t, calls, last>>

Next == Initialize \/ Step \/ Finish

Spec == Init /\ [][Next]_vars

\* the runs of the configurations whose initial placement lies on the road
SpecFits == InitFits /\ [][Next]_vars

\* the runs of the configurations that vary the clock
SpecClock == InitClock /\ [][Next]_vars

\* one tick from any road state of the data model
SpecScenario == InitScenario /\ [][Next]_vars

\* the runs on crowded roads
SpecCrowded == InitCrowded /\ [][Next]_vars

\* the runs in which every draw is go; the program keeps executing
SpecEndless == InitEndless /\ [][Next]_vars /\ WF_vars(Next)

(* ---- properties ---------------------------------------------------------- *)
Cars == DOMAIN cars

\* ring distance travelled from cell a to cell b
Forward(a, b) == (b - a) % L

\* C1: every car's position p satisfies 0 <= p < L in every state of a run
PositionBounds ==
    \A i \in Cars : 0 <= cars[i].position /\ cars[i].position < L

\* C2: every car's velocity v satisfies 0 <= v <= vmax in every state of a run
VelocityBounds ==
    \A i \in Cars : 0 <= cars[i].velocity /\ cars[i].velocity <= vmax

\* C3: after every call of step() no two distinct cars occupy the same cell
NoOverlap ==
    calls > 0 =>
        \A i, j \in Cars : i # j => cars[i].position % L # cars[j].position % L

\* C4: at the start of every tick, reading the cars by index goes once around
\* the ring: each car's successor is strictly ahead and the gaps add up to L
RECURSIVE SumGaps(_, _)
SumGaps(cs, i) ==
    IF i >= Cardinality(DOMAIN cs)
    THEN 0
    ELSE Forward(cs[i].position, cs[(i + 1) % Cardinality(DOMAIN cs)].position)
         + SumGaps(cs, i + 1)

CircularlySorted(cs) ==
    Cardinality(DOMAIN cs) >= 2 =>
        /\ \A i \in DOMAIN cs :
              Forward(cs[i].position,
                      cs[(i + 1) % Cardinality(DOMAIN cs)].position) >= 1
        /\ SumGaps(cs, 0) = L

OrderPreserved == (pc = "running" /\ DoubleLess(t, tmax)) => CircularlySorted(cars)

\* C5: for every car i < nb_cars-1 the committed position p' and the
\* start-of-tick position q of car i+1 never satisfy p' >= q and p' - q < 3;
\* the successor read is the start-of-tick one; only the last car is exempt
InWindow(p, q) == p >= q /\ p - q < 3

NoPassingWindow ==
    calls > 0 =>
        /\ \A i \in Cars : i < nb_cars - 1 =>
              /\ ~InWindow(last.next_position[i], last.cars[i + 1].position)
              /\ last.successor[i] = last.cars[i + 1].position
        /\ ~last.blocked[nb_cars - 1]

\* a tick in which the clamp fired for some car below the highest index
NoPassingWindowWitness ==
    /\ calls > 0
    /\ \E i \in Cars : i < nb_cars - 1 /\ last.blocked[i]
    /\ InWindow(last.next_position[nb_cars - 1], last.successor[nb_cars - 1])

\* C6: with proba_slow = 0, a car i < nb_cars-1 that starts the tick exactly
\* 2 cells behind its successor ends it at q - 1 when 2 <= v <= vmax, and
\* strictly behind q (less than 2 cells further on the ring) for 0 <= v <= vmax
ClampInsteadOfOvertaking ==
    (calls > 0 /\ proba_slow = 0) =>
        \A i \in Cars :
            LET p == last.cars[i].position
                v == last.cars[i].velocity
                q == last.cars[i + 1].position
            IN  (i < nb_cars - 1 /\ q = p + 2 /\ 0 <= v /\ v <= vmax) =>
                    /\ v >= 2 => cars[i].position = q - 1
                    /\ Forward(p, cars[i].position) < 2

\* C7 (as stated): from A = (1, v 1), B = (6, v 1) on L = 10 with proba_slow = 0
\* one tick fires no clamp and moves each car forward by min(1+1, vmax) cells,
\* each velocity becoming min(2, vmax)
ScenarioCars ==
    (0 :> [position |-> 1, velocity |-> 1]) @@ (1 :> [position |-> 6, velocity |-> 1])

ScenarioTick ==
    /\ calls = 1
    /\ L = 10
    /\ nb_cars = 2
    /\ proba_slow = 0
    /\ last.cars = ScenarioCars

UnblockedAdvanceAsStated ==
    ScenarioTick =>
        /\ \A i \in Cars : ~last.blocked[i]
        /\ cars[0].position = 1 + Min(2, vmax)
        /\ cars[1].position = 6 + Min(2, vmax)
        /\ \A i \in Cars : cars[i].velocity = Min(2, vmax)

\* C7 (amended): the tick fires no clamp and moves each car forward by its
\* velocity 1 (A to 2, B to 7), each velocity becoming min(2, vmax)
UnblockedAdvance ==
    ScenarioTick =>
        /\ \A i \in Cars : ~last.blocked[i]
        /\ cars[0].position = 2
        /\ cars[1].position = 7
        /\ \A i \in Cars : cars[i].velocity = Min(2, vmax)

UnblockedAdvanceWitness == ScenarioTick /\ vmax >= 2 /\ cars[0].velocity = 2

\* exact arithmetic on the values [hi, lo], without rounding
ExactAdd(x, y) ==
    [hi |-> x.hi + y.hi + ((x.lo + y.lo) \div Limb), lo |-> (x.lo + y.lo) % Limb]

RECURSIVE ExactTimes(_, _)
ExactTimes(k, x) == IF k <= 0 THEN DoubleOf(0) ELSE ExactAdd(x, ExactTimes(k - 1, x))

ExactLess(x, y) == x.hi < y.hi \/ (x.hi = y.hi /\ x.lo < y.lo)

\* the real number k * nb_cars * dt
Elapsed(k) == ExactTimes(k * nb_cars, dt)

\* C8: a finished run has t >= tmax, made exactly k calls of step() where k is
\* the least integer with k * nb_cars * dt >= tmax, started no call once
\* t >= tmax, and ends with tmax <= t < tmax + nb_cars * dt
RunLength ==
    /\ calls > 0 => DoubleLess(last.t, tmax)
    /\ pc = "finished" =>
          /\ ~DoubleLess(t, tmax)
          /\ ~ExactLess(Elapsed(calls), DoubleOf(tmax))
          /\ ExactLess(Elapsed(calls - 1), DoubleOf(tmax))
          /\ ExactLess(t, ExactAdd(DoubleOf(tmax), ExactTimes(nb_cars, dt)))

\* the road cell car i stands in
Cell(i) == cars[i].position % L

\* the 0/1 occupancy of cell k
Occ(k) == IF \E i \in Cars : Cell(i) = k THEN 1 ELSE 0

Density == TrafficDensity(cars, L)

\* the states in which the code can build the road: the cars exist and every
\* position is a valid index
OnRoad == pc # "new" /\ RoadDefined(cars, L)

\* C9: for L >= 4 the density at indices 0, 1, L-2 and L-1 is exactly 0
DensityBoundary ==
    (OnRoad /\ L >= 4) =>
        \A k \in {0, 1, L - 2, L - 1} : Density[k] = 0

\* a car stands in a boundary cell and another index has a positive density
DensityBoundaryWitness ==
    /\ calls > 0
    /\ L >= 6
    /\ \E i \in Cars : Cell(i) \in {0, 1, L - 2, L - 1}
    /\ \E i \in Cars : cars[i].position < 0
    /\ \E k \in 0..(L - 1) : Density[k] > 0

\* the weight, in quarters, of a car at distance d from the index
Weight(d) == IF d = 0 THEN 4 ELSE IF d = 1 THEN 2 ELSE IF d = 2 THEN 1 ELSE 0

Distance(a, b) == IF a < b THEN b - a ELSE a - b

KernelOfOcc ==
    \A k \in 2..(L - 3) :
        Density[k] = Occ(k - 2) + 2 * Occ(k - 1) + 4 * Occ(k) + 2 * Occ(k + 1)
                     + Occ(k + 2)

\* car i has no other car within d cells
Isolated(i, d) ==
    \A j \in Cars : j # i =>
        Distance(Cell(j), Cell(i)) > d

\* C10 (as stated): density[k] is the 5-tap kernel of the occupancy for
\* 2 <= k <= L-3, and a car at c with no other car within 2 cells yields 1 at c,
\* 1/2 at c-1 and c+1, 1/4 at c-2 and c+2 and 0 at every other index
DensityKernelAsStated ==
    OnRoad =>
        /\ KernelOfOcc
        /\ \A i \in Cars : Isolated(i, 2) =>
              \A k \in 2..(L - 3) :
                  Density[k] = Weight(Distance(k, Cell(i)))

\* C10 (amended): density[k] is the 5-tap kernel of the occupancy for
\* 2 <= k <= L-3; a car at c with no other car within 4 cells yields 1 at c,
\* 1/2 at c-1 and c+1, 1/4 at c-2 and c+2, and every index further than 2
\* cells from every car has density 0
DensityKernel ==
    OnRoad =>
        /\ KernelOfOcc
        /\ \A i \in Cars : Isolated(i, 4) =>
              \A k \in 2..(L - 3) :
                  Distance(k, Cell(i)) <= 2 =>
                      Density[k] = Weight(Distance(k, Cell(i)))
        /\ \A k \in 2..(L - 3) :
              (\A i \in Cars : Distance(k, Cell(i)) > 2) =>
                  Density[k] = 0

\* two cars on the road, one of them with no other car within 4 cells and
\* with the indices c and c+2 inside the kernel range
DensityKernelWitness ==
    /\ calls > 0
    /\ nb_cars = 2
    /\ \E i \in Cars :
          /\ Isolated(i, 4)
          /\ Cell(i) >= 2
          /\ Cell(i) + 2 <= L - 3

\* C12: a run starts with car i at position 2*i + 1 (strictly increasing, odd),
\* every velocity in {1, 2, 3} whatever vmax is, and the clock at 0
RunStart == pc = "running" /\ calls = 0

InitialState ==
    RunStart =>
        /\ Cars = 0..(nb_cars - 1)
        /\ \A i \in Cars : cars[i].position = 2 * i + 1
        /\ \A i \in Cars : cars[i].velocity \in {1, 2, 3}
        /\ \A i \in Cars : i > 0 => cars[i - 1].position < cars[i].position
        /\ t = DoubleOf(0)

\* a run starts with a velocity above vmax
InitialStateWitness ==
    /\ RunStart
    /\ nb_cars = 2
    /\ vmax = 1
    /\ cars[1].velocity = 3

\* the displacement committed for car i in the last tick
Advance(i) == last.next_position[i] - last.cars[i].position

\* the velocity lines 93-94 give for the displacement of car i and its draw
Recomputed(i) ==
    IF last.draws[i] = 1
    THEN Min(Advance(i) + 1, vmax)
    ELSE Max(Advance(i) - 1, 0)

\* C13: a car whose committed position is not smaller than its old position
\* gets the velocity min(advance + 1, vmax) on go and max(advance - 1, 0) on
\* slow, advance being the committed displacement
VelocityUpdate ==
    calls > 0 =>
        \A i \in Cars : Advance(i) >= 0 => cars[i].velocity = Recomputed(i)

\* a clamped car that moved less than its velocity and drew go: its new
\* velocity follows the displacement, not the old velocity
VelocityUpdateWitness ==
    /\ calls > 0
    /\ \E i \in Cars :
          /\ last.blocked[i]
          /\ Advance(i) >= 0
          /\ Advance(i) + 1 < last.cars[i].velocity
          /\ last.draws[i] = 1
          /\ cars[i].velocity = Advance(i) + 1
          /\ cars[i].velocity < vmax

\* C14: a car whose committed position is numerically smaller than its old
\* position keeps its velocity whatever the draw; in every other case the
\* velocity is recomputed
VelocityOnWrap ==
    calls > 0 =>
        \A i \in Cars :
            IF Advance(i) < 0
            THEN cars[i].velocity = last.cars[i].velocity
            ELSE cars[i].velocity = Recomputed(i)

\* a car wrapped on a slow draw and kept a velocity the rule would not give
VelocityOnWrapWitness ==
    /\ calls > 0
    /\ \E i \in Cars :
          /\ Advance(i) < 0
          /\ last.draws[i] = 0
          /\ cars[i].velocity = last.cars[i].velocity
          /\ cars[i].velocity >= 1

\* C15: the test next_position > L never holds, so the position a car is
\* left at is always the committed one
RedundantGuard ==
    calls > 0 =>
        \A i \in Cars :
            /\ ~(last.next_position[i] > L)
            /\ cars[i].position = last.next_position[i]

\* a car whose position plus velocity went beyond L in the last tick
RedundantGuardWitness ==
    /\ calls > 0
    /\ \E i \in Cars : last.cars[i].position + last.cars[i].velocity > L

\* C16: every call of step() advances the clock by nb_cars increments of dt,
\* so after k calls t = k * nb_cars * dt; t never decreases and changes
\* nowhere else during a run
ClockAccounting ==
    /\ pc # "new" => t = Elapsed(calls)
    /\ calls > 0 => ExactLess(last.t, t)
    /\ calls = 0 => t = DoubleOf(0)

\* C17: in every tick every car's committed position is its old position
\* moved forward by d cells modulo L for some d with 0 <= d <= its velocity at
\* the start of the tick
NoBackwardMovement ==
    calls > 0 =>
        \A i \in Cars :
            Forward(last.cars[i].position, last.next_position[i])
                <= last.cars[i].velocity

\* C19: every velocity v satisfies 0 <= v <= max(vmax, 3), and a velocity
\* that is <= vmax at the start of a tick is <= vmax after it
VelocityCeiling ==
    /\ \A i \in Cars : 0 <= cars[i].velocity /\ cars[i].velocity <= Max(vmax, 3)
    /\ calls > 0 =>
          \A i \in Cars :
              last.cars[i].velocity <= vmax => cars[i].velocity <= vmax

\* C18: after every call of step(), for L >= 3, every position p satisfies
\* -3 <= p <= L - 1, so that p indexes the occupancy vector of length L
OccupancyIndexValid ==
    (calls > 0 /\ L >= 3) =>
        /\ \A i \in Cars : -3 <= cars[i].position /\ cars[i].position <= L - 1
        /\ RoadDefined(cars, L)

\* a car at position -3 after a tick
OccupancyIndexValidWitness ==
    calls > 0 /\ L >= 3 /\ \E i \in Cars : cars[i].position = -3

\* the highest-index car
FreeCar == nb_cars - 1

\* every draw is go, the road is longer than any velocity, the run never ends
EndlessRun == proba_slow = 0 /\ vmax >= 1 /\ L > Max(vmax, 3) /\ dt = Zero

\* C20: with proba_slow = 0, vmax >= 1 and L > max(vmax, 3), in an unbounded
\* run the highest-index car eventually has velocity vmax and keeps it in
\* every later tick
FreeCarReachesTopSpeed ==
    EndlessRun => <>[](pc = "running" /\ cars[FreeCar].velocity = vmax)

\* the tick in which the highest-index car accelerates to vmax
FreeCarReachesTopSpeedWitness ==
    /\ EndlessRun
    /\ calls > 0
    /\ last.cars[FreeCar].velocity < vmax
    /\ cars[FreeCar].velocity = vmax

====
